---- MODULE Spec2Model ----
(***************************************************************************)
(* Client-record management: the API Service (src/BackEnd/index.js) and    *)
(* the Client Application (src/FrontEnd/app/index.tsx).                    *)
(*                                                                         *)
(* Text values (Nome, Idade as typed, UF) are sequences of one-character   *)
(* strings, so that trim, toUpperCase, parseInt and length are computed.   *)
(***************************************************************************)
EXTENDS Integers, Sequences, FiniteSets, Bags, TLC

VARIABLES
    \* ---- API Service -------------------------------------------------
    store,      \* rows of the clients table, in storage order
    nextId,     \* the storage layer's next generated id
    lastReq,    \* the HTTP request handled last (history)
    sent,       \* the responses the handler sent for lastReq, in order
    again,      \* lastReq repeats the request before it, which got a 2xx
    \* ---- Client Application: validateForm on its own -----------------
    vForm,      \* a form handed to validateForm
    vResult,    \* "none" before the call, then "accepted" / "rejected"
    \* ---- Client Application: component state (useState) --------------
    clientes,           \* the list on screen
    loading,
    modalVisible,
    deleteModalVisible,
    editingCliente,     \* a Cliente or Null
    deletingCliente,    \* a Cliente or Null
    formData,
    \* ---- Client Application: asynchronous calls ----------------------
    inflight,   \* bag of the fetch calls awaited by the async functions
    lastAlert,  \* the Alert.alert of the step taken last, NoAlert if none (history)
    lastEvent,  \* the async function resumed or called last, and how its
                \* request ended; NoEvent after any other step (history)
    \* ---- between the two ---------------------------------------------
    answers     \* bag of the responses the API Service has sent to calls of
                \* the Client Application that have not consumed them yet

apiVars == <<store, nextId, lastReq, sent, again>>
valVars == <<vForm, vResult>>
uiVars == <<clientes, loading, modalVisible, deleteModalVisible, editingCliente,
            deletingCliente, formData, inflight, lastAlert, lastEvent>>
netVars == <<answers>>
vars == <<store, nextId, lastReq, sent, again, vForm, vResult,
          clientes, loading, modalVisible, deleteModalVisible, editingCliente,
          deletingCliente, formData, inflight, lastAlert, lastEvent, answers>>

----------------------------------------------------------------------------
(* Bounds *)

\* ids the storage layer hands out before creates are cut off
MaxId == 2

\* longest Nome and UF handed to validateForm
MaxNomeLen == 2
MaxUFLen == 3

\* maxLength of the Idade input
IdadeMaxLength == 3

\* fetch calls the Client Application may have pending at once
MaxInFlight == 2

----------------------------------------------------------------------------
(* Text helpers *)

\* every text of at most n characters over chars
Texts(chars, n) == UNION {[1..k -> chars] : k \in 0..n}

\* String.prototype.trim's white space
IsSpace(c) == c = " "

DecDigits == <<"0", "1", "2", "3", "4", "5", "6", "7", "8", "9">>
HexLower == <<"0", "1", "2", "3", "4", "5", "6", "7", "8", "9", "a", "b", "c", "d", "e", "f">>
HexUpper == <<"0", "1", "2", "3", "4", "5", "6", "7", "8", "9", "A", "B", "C", "D", "E", "F">>

IndexIn(c, table) == CHOOSE i \in 1..Len(table) : table[i] = c

IsDigitOf(c, radix) ==
    IF radix = 16
    THEN (\E i \in 1..16 : HexLower[i] = c) \/ (\E i \in 1..16 : HexUpper[i] = c)
    ELSE \E i \in 1..10 : DecDigits[i] = c

DigitValue(c) ==
    IF \E i \in 1..16 : HexLower[i] = c
    THEN IndexIn(c, HexLower) - 1
    ELSE IndexIn(c, HexUpper) - 1

IsUpperLetter(c) == c \in {"A", "B", "S", "P", "X"}

IsLowerLetter(c) == c \in {"a", "b", "s", "p", "x"}

\* String.prototype.toUpperCase, one character
UpperChar(c) ==
    CASE c = "a" -> "A" [] c = "b" -> "B" [] c = "s" -> "S"
      [] c = "p" -> "P" [] c = "x" -> "X" [] OTHER -> c

toUpperCase(s) == [i \in 1..Len(s) |-> UpperChar(s[i])]

RECURSIVE trimStart(_)
trimStart(s) ==
    IF s = <<>> THEN s
    ELSE IF IsSpace(Head(s)) THEN trimStart(Tail(s)) ELSE s

RECURSIVE trimEnd(_)
trimEnd(s) ==
    IF s = <<>> THEN s
    ELSE IF IsSpace(s[Len(s)]) THEN trimEnd(SubSeq(s, 1, Len(s) - 1)) ELSE s

\* String.prototype.trim
trim(s) == trimEnd(trimStart(s))

\* the longest prefix of s made of digits of the radix
RECURSIVE DigitPrefix(_, _)
DigitPrefix(s, radix) ==
    IF s = <<>> \/ ~IsDigitOf(Head(s), radix) THEN <<>>
    ELSE <<Head(s)>> \o DigitPrefix(Tail(s), radix)

RECURSIVE DigitsValue(_, _, _)
DigitsValue(s, radix, acc) ==
    IF s = <<>> THEN acc
    ELSE DigitsValue(Tail(s), radix, acc * radix + DigitValue(Head(s)))

NaN == [nan |-> TRUE, val |-> 0]

Num(n) == [nan |-> FALSE, val |-> n]

isNaN(p) == p.nan

\* parseInt(string) with no radix: leading white space skipped, an optional
\* sign, a 0x/0X prefix selecting radix 16, then the longest run of digits;
\* NaN when that run is empty
parseInt(s) ==
    LET t1 == trimStart(s)
        signed == t1 # <<>> /\ Head(t1) \in {"-", "+"}
        neg == t1 # <<>> /\ Head(t1) = "-"
        t2 == IF signed THEN Tail(t1) ELSE t1
        hex == Len(t2) >= 2 /\ t2[1] = "0" /\ t2[2] \in {"x", "X"}
        radix == IF hex THEN 16 ELSE 10
        t3 == IF hex THEN SubSeq(t2, 3, Len(t2)) ELSE t2
        ds == DigitPrefix(t3, radix)
    IN  IF ds = <<>> THEN NaN
        ELSE Num((IF neg THEN -1 ELSE 1) * DigitsValue(ds, radix, 0))

\* Number.prototype.toString of an integer
RECURSIVE NatToString(_)
NatToString(n) ==
    IF n < 10 THEN <<DecDigits[n + 1]>>
    ELSE NatToString(n \div 10) \o <<DecDigits[(n % 10) + 1]>>

toString(n) == IF n < 0 THEN <<"-">> \o NatToString(-n) ELSE NatToString(n)

----------------------------------------------------------------------------
(* Storage layer: ./conf/autenticacao, required at src/BackEnd/index.js:5. *)
(* Its code is not in the repository's sources; it is modelled from the    *)
(* data model and the External Interfaces of the specification.            *)

HasId(s, id) == \E i \in 1..Len(s) : s[i].id = id

selectFull(s) == s

selectById(s, id) == SelectSeq(s, LAMBDA r : r.id = id)

insertCliente(s, n, Nome, Idade, UF) ==
    Append(s, [id |-> n, Nome |-> Nome, Idade |-> Idade, UF |-> UF])

\* updateCliente of the storage layer (the Client Application has a function
\* of the same name)
dbUpdateCliente(s, Nome, Idade, UF, id) ==
    [i \in 1..Len(s) |->
        IF s[i].id = id
        THEN [id |-> id, Nome |-> Nome, Idade |-> Idade, UF |-> UF]
        ELSE s[i]]

deleteById(s, id) == SelectSeq(s, LAMBDA r : r.id # id)

\* deleteById's result: whether a row was removed
deleteByIdOk(s, id) == HasId(s, id)

----------------------------------------------------------------------------
(* API Service: responses *)

NoBody == [Nome |-> <<>>, Idade |-> 0, UF |-> <<>>]

Json(status, kind, text, data) ==
    [status |-> status, kind |-> kind, text |-> text, data |-> data]

\* res.json(data): status 200 with the rows
ResData(data) == Json(200, "data", "", data)

ResMessage(status, text) == Json(status, "message", text, <<>>)

ResError(status, text) == Json(status, "error", text, <<>>)

----------------------------------------------------------------------------
(* API Service: route handlers.  Each handler makes one storage call; the  *)
(* call either returns or throws (dbError), and a throw leaves the table   *)
(* as it was.                                                              *)

Request(method, id, body, dbError) ==
    [method |-> method, id |-> id, body |-> body, dbError |-> dbError]

SameRequest(a, b) == a.method = b.method /\ a.id = b.id /\ a.body = b.body

Is2xx(status) == status \in 200..299

Statuses(out) == {out[i].status : i \in 1..Len(out)}

\* bookkeeping common to the handlers: the table after the storage call,
\* the generated-id counter, and the responses written to res
Handled(req, s2, n2, out) ==
    /\ store' = s2
    /\ nextId' = n2
    /\ sent' = out
    /\ lastReq' = req
    /\ again' = (SameRequest(req, lastReq) /\ \E st \in Statuses(sent) : Is2xx(st))

\* app.get("/")
GetRoot(dbError) ==
    LET req == Request("GET /", 0, NoBody, dbError) IN
    IF dbError
    THEN Handled(req, store, nextId, <<ResError(500, "Erro ao buscar clientes")>>)
    ELSE Handled(req, store, nextId, <<ResData(selectFull(store))>>)

\* app.get("/clientes/:id")
GetClienteById(id, dbError) ==
    LET req == Request("GET /clientes/:id", id, NoBody, dbError) IN
    IF dbError
    THEN Handled(req, store, nextId, <<ResError(500, "Erro ao buscar cliente")>>)
    ELSE Handled(req, store, nextId, <<ResData(selectById(store, id))>>)

\* a handler that forwards the wrong field as UF
PostClienteWrongField(body, dbError) ==
    LET req == Request("POST /clientes", 0, body, dbError) IN
    IF dbError
    THEN Handled(req, store, nextId, <<ResError(500, "Erro ao criar cliente")>>)
    ELSE Handled(req,
                 insertCliente(store, nextId, body.Nome, body.Idade, body.Nome),
                 nextId + 1,
                 <<ResMessage(201, "Cliente criado com sucesso")>>)

\* app.post("/clientes")
PostCliente(body, dbError) ==
    LET req == Request("POST /clientes", 0, body, dbError) IN
    IF dbError
    THEN Handled(req, store, nextId, <<ResError(500, "Erro ao criar cliente")>>)
    ELSE Handled(req,
                 insertCliente(store, nextId, body.Nome, body.Idade, body.UF),
                 nextId + 1,
                 <<ResMessage(201, "Cliente criado com sucesso")>>)

\* a handler that does not await the storage call: the throw is not caught
PutClienteNoAwait(id, body, dbError) ==
    LET req == Request("PUT /clientes/:id", id, body, dbError) IN
    Handled(req,
            IF dbError THEN store
            ELSE dbUpdateCliente(store, body.Nome, body.Idade, body.UF, id),
            nextId,
            <<ResMessage(200, "Cliente atualizado com sucesso")>>)

\* a handler that calls the create statement instead of the update one
PutClienteInserts(id, body, dbError) ==
    LET req == Request("PUT /clientes/:id", id, body, dbError) IN
    IF dbError
    THEN Handled(req, store, nextId, <<ResError(500, "Erro ao atualizar cliente")>>)
    ELSE Handled(req,
                 insertCliente(store, nextId, body.Nome, body.Idade, body.UF),
                 nextId + 1,
                 <<ResMessage(200, "Cliente atualizado com sucesso")>>)

\* app.put("/clientes/:id")
PutCliente(id, body, dbError) ==
    LET req == Request("PUT /clientes/:id", id, body, dbError) IN
    IF dbError
    THEN Handled(req, store, nextId, <<ResError(500, "Erro ao atualizar cliente")>>)
    ELSE Handled(req,
                 dbUpdateCliente(store, body.Nome, body.Idade, body.UF, id),
                 nextId,
                 <<ResMessage(200, "Cliente atualizado com sucesso")>>)

\* a handler that does not look at deleteById's result
DeleteClienteIgnoresOk(id, dbError) ==
    LET req == Request("DELETE /clientes/:id", id, NoBody, dbError) IN
    IF dbError
    THEN Handled(req, store, nextId, <<ResError(500, "Erro ao deletar cliente")>>)
    ELSE Handled(req, deleteById(store, id), nextId,
                 <<ResMessage(200, "Cliente deletado com sucesso")>>)

\* app.delete("/clientes/:id")
DeleteCliente(id, dbError) ==
    LET req == Request("DELETE /clientes/:id", id, NoBody, dbError) IN
    IF dbError
    THEN Handled(req, store, nextId, <<ResError(500, "Erro ao deletar cliente")>>)
    ELSE IF deleteByIdOk(store, id)
         THEN Handled(req, deleteById(store, id), nextId,
                      <<ResMessage(200, "Cliente deletado com sucesso")>>)
         ELSE Handled(req, deleteById(store, id), nextId,
                      <<ResError(404, "Cliente não encontrado")>>)

----------------------------------------------------------------------------
(* Any HTTP caller of the API Service *)

\* request bodies a caller may send: the server reads Nome, Idade, UF as is
ApiNomes == {<<>>, <<"a">>}
ApiIdades == {-1, 150}
ApiUFs == {<<"S", "P">>, <<"s">>}
ApiBodies == [Nome : ApiNomes, Idade : ApiIdades, UF : ApiUFs]

\* ids a caller may name: every id the storage can have generated
ApiIds == 1..MaxId

NoRequest == Request("NONE", 0, NoBody, FALSE)

\* null, as the value of editingCliente / deletingCliente
Null == [id |-> 0, Nome |-> <<>>, Idade |-> 0, UF |-> <<>>]

NoAlert == [title |-> "", message |-> <<>>]

NoEvent == [fn |-> "", outcome |-> ""]

\* the component's state before it is mounted, no response under way
UIUnmounted ==
    /\ clientes = <<>>
    /\ loading = FALSE
    /\ modalVisible = FALSE
    /\ deleteModalVisible = FALSE
    /\ editingCliente = Null
    /\ deletingCliente = Null
    /\ formData = [Nome |-> <<>>, Idade |-> <<>>, UF |-> <<>>]
    /\ inflight = EmptyBag
    /\ lastAlert = NoAlert
    /\ lastEvent = NoEvent
    /\ answers = EmptyBag

InitVal0 ==
    /\ vForm = [Nome |-> <<>>, Idade |-> <<>>, UF |-> <<>>]
    /\ vResult = "none"

InitApi ==
    /\ store = <<>>
    /\ nextId = 1
    /\ lastReq = NoRequest
    /\ sent = <<>>
    /\ again = FALSE
    /\ InitVal0
    /\ UIUnmounted

CallGetRoot ==
    /\ \E e \in BOOLEAN : GetRoot(e)
    /\ UNCHANGED <<valVars, uiVars, netVars>>

CallGetClienteById ==
    /\ \E id \in ApiIds, e \in BOOLEAN : GetClienteById(id, e)
    /\ UNCHANGED <<valVars, uiVars, netVars>>

\* creates stop once the storage has generated MaxId ids
CallPostCliente ==
    /\ nextId <= MaxId
    /\ \E b \in ApiBodies, e \in BOOLEAN : PostCliente(b, e)
    /\ UNCHANGED <<valVars, uiVars, netVars>>

CallPutCliente ==
    /\ \E id \in ApiIds, b \in ApiBodies, e \in BOOLEAN : PutCliente(id, b, e)
    /\ UNCHANGED <<valVars, uiVars, netVars>>

CallDeleteCliente ==
    /\ \E id \in ApiIds, e \in BOOLEAN : DeleteCliente(id, e)
    /\ UNCHANGED <<valVars, uiVars, netVars>>

NextApi ==
    \/ CallGetRoot
    \/ CallGetClienteById
    \/ CallPostCliente
    \/ CallPutCliente
    \/ CallDeleteCliente

SpecApi == InitApi /\ [][NextApi]_vars

\* the one response of the last request
LastStatus == IF Len(sent) = 0 THEN 0 ELSE sent[1].status

Rows(s) == {s[i] : i \in 1..Len(s)}

IsDelete(req) == req.method = "DELETE /clientes/:id"
IsPut(req) == req.method = "PUT /clientes/:id"
IsPost(req) == req.method = "POST /clientes"
IsList(req) == req.method = "GET /"
IsGetById(req) == req.method = "GET /clientes/:id"

----------------------------------------------------------------------------
(* C1: delete by id *)

\* what a DELETE must do to the table and answer, by whether the id is there
DeleteEffect(req) ==
    IF HasId(store, req.id)
    THEN /\ sent' = <<ResMessage(200, "Cliente deletado com sucesso")>>
         /\ Rows(store') = {r \in Rows(store) : r.id # req.id}
         /\ Len(store') = Len(store) - 1
    ELSE /\ Len(sent') = 1
         /\ sent'[1].status = 404
         /\ store' = store

\* an id the storage has generated and that is gone stays gone
GoneStaysGone ==
    \A id \in ApiIds : (id < nextId /\ ~HasId(store, id)) => ~HasId(store', id)

\* a list or get-by-id that returns rows returns rows of the table
ReadsReturnTable ==
    /\ (IsList(lastReq) /\ LastStatus = 200) => sent[1].data = store
    /\ (IsGetById(lastReq) /\ LastStatus = 200) =>
           Rows(sent[1].data) = {r \in Rows(store) : r.id = lastReq.id}

\* C1 as stated: for any id of a record in the store the first DELETE
\* /clientes/:id responds 200 and removes exactly that record, later reads
\* no longer return it, and a repeated DELETE of the same id responds 404.
C1_DeleteUnconditional ==
    /\ [][IsDelete(lastReq') => DeleteEffect(lastReq')]_vars
    /\ [][GoneStaysGone]_vars
    /\ [](ReadsReturnTable)
    /\ []((IsDelete(lastReq) /\ again) => LastStatus = 404)

\* C1 (amended): a DELETE /clientes/:id whose storage call does not fail
\* responds 200 and removes exactly the record of that id when the id is in
\* the store, and responds 404 and removes nothing otherwise; an id once
\* removed is never returned by a later list or get-by-id; a repeated DELETE
\* of the same id whose storage call does not fail responds 404.
C1_DeleteById ==
    /\ [][(IsDelete(lastReq') /\ ~lastReq'.dbError) => DeleteEffect(lastReq')]_vars
    /\ [][GoneStaysGone]_vars
    /\ [](ReadsReturnTable)
    /\ []((IsDelete(lastReq) /\ again /\ ~lastReq.dbError) => LastStatus = 404)

\* a DELETE repeated right after the same DELETE answered 200 got 404,
\* while another record is still in the store
C1_Witness ==
    /\ IsDelete(lastReq)
    /\ again
    /\ LastStatus = 404
    /\ Len(store) = 1

----------------------------------------------------------------------------
(* C2: create then list *)

IsLetter(c) == IsUpperLetter(c) \/ IsLowerLetter(c)

\* the bodies C2 is about: Idade in [0,150] and UF of exactly 2 letters
C2Body(b) ==
    /\ b.Idade \in 0..150
    /\ Len(b.UF) = 2
    /\ \A i \in 1..Len(b.UF) : IsLetter(b.UF[i])

Matches(r, b) == r.Nome = b.Nome /\ r.Idade = b.Idade /\ r.UF = b.UF

UniqueIds(s) == \A i, j \in 1..Len(s) : s[i].id = s[j].id => i = j

\* a create that does not hit a storage failure answers 201 and adds one
\* record with the submitted fields and an id no other record has
CreateEffect(req) ==
    /\ sent' = <<ResMessage(201, "Cliente criado com sucesso")>>
    /\ \E r \in Rows(store') :
          /\ Matches(r, req.body)
          /\ ~HasId(store, r.id)
          /\ Rows(store') = Rows(store) \cup {r}
    /\ UniqueIds(store')

\* a record stays as it is unless the request deletes or updates its id
RecordsKept ==
    \A r \in Rows(store) :
        ((IsDelete(lastReq') \/ IsPut(lastReq')) /\ lastReq'.id = r.id)
        \/ r \in Rows(store')

\* C2 as stated: after a create without storage failure, a following
\* GET / returns an array containing the created record.
C2_ListAlwaysArray ==
    /\ [][(IsPost(lastReq') /\ ~lastReq'.dbError /\ C2Body(lastReq'.body))
            => CreateEffect(lastReq')]_vars
    /\ [][RecordsKept]_vars
    /\ [][(IsList(lastReq') /\ IsPost(lastReq) /\ LastStatus = 201
            /\ C2Body(lastReq.body))
            => /\ sent'[1].kind = "data"
               /\ \E i \in 1..Len(sent'[1].data) :
                     Matches(sent'[1].data[i], lastReq.body)]_vars

\* C2 (amended): a POST /clientes with Idade in [0,150] and a 2-letter UF
\* that does not hit a storage failure responds 201 and stores one record
\* with the submitted fields under an id no other record has; the record
\* stays until a delete or update of its id; and a GET / that does not hit
\* a storage failure either returns the array of all stored records.
C2_CreateThenList ==
    /\ [][(IsPost(lastReq') /\ ~lastReq'.dbError /\ C2Body(lastReq'.body))
            => CreateEffect(lastReq')]_vars
    /\ [][RecordsKept]_vars
    /\ []((IsList(lastReq) /\ ~lastReq.dbError)
            => (sent = <<ResData(store)>> /\ UniqueIds(store)))

\* a list returned two created records, one of them with Idade 150
C2_Witness ==
    /\ IsList(lastReq)
    /\ LastStatus = 200
    /\ Len(sent[1].data) = 2
    /\ \E i \in 1..2 : C2Body(sent[1].data[i]) /\ sent[1].data[i].Idade = 150

----------------------------------------------------------------------------
(* C3: persisted-record invariant *)

ValidRecord(r) ==
    /\ Len(r.Nome) > 0
    /\ r.Idade \in 0..150
    /\ Len(r.UF) = 2
    /\ \A i \in 1..Len(r.UF) : IsUpperLetter(r.UF[i])

\* C3: every record in the store has a non-empty Nome, an integer Idade in
\* [0,150] and a UF of exactly two uppercase letters.
C3_PersistedRecordsValid == \A r \in Rows(store) : ValidRecord(r)

----------------------------------------------------------------------------
(* C4: storage failure handling *)

\* the static message each endpoint answers a storage failure with
FailureMessage(method) ==
    CASE method = "GET /" -> "Erro ao buscar clientes"
      [] method = "GET /clientes/:id" -> "Erro ao buscar cliente"
      [] method = "POST /clientes" -> "Erro ao criar cliente"
      [] method = "PUT /clientes/:id" -> "Erro ao atualizar cliente"
      [] method = "DELETE /clientes/:id" -> "Erro ao deletar cliente"

\* C4: a request whose storage call failed gets exactly one response, status
\* 500 with an {error} payload carrying the endpoint's fixed message, and so
\* no 200/201 and no success message; every request gets exactly one response.
C4_StorageFailure500 ==
    /\ lastReq # NoRequest => Len(sent) = 1
    /\ lastReq.dbError => sent = <<ResError(500, FailureMessage(lastReq.method))>>

\* the storage call of a DELETE of a stored id failed and 500 was answered
C4_Witness ==
    /\ IsDelete(lastReq)
    /\ lastReq.dbError
    /\ HasId(store, lastReq.id)
    /\ LastStatus = 500

----------------------------------------------------------------------------
(* C7: update idempotence *)

\* an update that is applied keeps every id in place and changes no record
\* of another id
UpdateFrame(req) ==
    /\ Len(store') = Len(store)
    /\ \A i \in 1..Len(store) :
          /\ store'[i].id = store[i].id
          /\ store[i].id # req.id => store'[i] = store[i]
          /\ store[i].id = req.id => Matches(store'[i], req.body)

\* C7: the same PUT /clientes/:id with the same {Nome, Idade, UF} issued
\* again right after it was applied leaves the store as it was; an update
\* keeps the record's id and changes no other record.
C7_UpdateIdempotent ==
    /\ [][(IsPut(lastReq') /\ SameRequest(lastReq', lastReq) /\ LastStatus = 200)
            => store' = store]_vars
    /\ [][(IsPut(lastReq') /\ ~lastReq'.dbError) => UpdateFrame(lastReq')]_vars

\* the same update of a stored record was issued twice in a row and applied
\* both times, another record being in the store
C7_Witness ==
    /\ IsPut(lastReq)
    /\ again
    /\ LastStatus = 200
    /\ HasId(store, lastReq.id)
    /\ Len(store) = 2

----------------------------------------------------------------------------
(* Client Application: validateForm *)

Form(Nome, Idade, UF) == [Nome |-> Nome, Idade |-> Idade, UF |-> UF]

EmptyForm == Form(<<>>, <<>>, <<>>)

\* validateForm: "ok" when the form passes, else the alert it raises
validateFormAlert(f) ==
    IF trim(f.Nome) = <<>> THEN "Nome é obrigatório"
    ELSE IF trim(f.Idade) = <<>> THEN "Idade é obrigatória"
    ELSE IF \/ isNaN(parseInt(f.Idade))
            \/ parseInt(f.Idade).val < 0
            \/ parseInt(f.Idade).val > 150
         THEN "Digite uma idade válida (0-150)"
    ELSE IF trim(f.UF) = <<>> THEN "UF é obrigatória"
    ELSE IF Len(f.UF) # 2 THEN "UF deve ter exatamente 2 caracteres"
    ELSE "ok"

validateForm(f) == validateFormAlert(f) = "ok"

\* the texts a form field may hold when validateForm is called
NomeTexts == Texts({" ", "a"}, MaxNomeLen)
IdadeTexts == Texts({" ", "-", "0", "1", "5", "x"}, IdadeMaxLength)
UFTexts == Texts({" ", "s", "S"}, MaxUFLen)

InitValidate ==
    /\ vForm \in [Nome : NomeTexts, Idade : IdadeTexts, UF : UFTexts]
    /\ vResult = "none"
    /\ store = <<>>
    /\ nextId = 1
    /\ lastReq = NoRequest
    /\ sent = <<>>
    /\ again = FALSE
    /\ UIUnmounted

CallValidateForm ==
    /\ vResult = "none"
    /\ vResult' = IF validateForm(vForm) THEN "accepted" ELSE "rejected"
    /\ UNCHANGED <<vForm, apiVars, uiVars, netVars>>

NextValidate == CallValidateForm

SpecValidate == InitValidate /\ [][NextValidate]_vars

----------------------------------------------------------------------------
(* C5: client-side validation equals its specification *)

\* a text that is an integer numeral: an optional sign, then decimal digits
IsIntegerText(s) ==
    LET body == IF s # <<>> /\ Head(s) \in {"-", "+"} THEN Tail(s) ELSE s
    IN  body # <<>> /\ \A i \in 1..Len(body) : IsDigitOf(body[i], 10)

IntegerOf(s) ==
    IF Head(s) = "-" THEN -DigitsValue(Tail(s), 10, 0)
    ELSE IF Head(s) = "+" THEN DigitsValue(Tail(s), 10, 0)
    ELSE DigitsValue(s, 10, 0)

\* the validation rule as C5 states it
FormIsValid(f) ==
    /\ trim(f.Nome) # <<>>
    /\ trim(f.Idade) # <<>>
    /\ IsIntegerText(trim(f.Idade))
    /\ IntegerOf(trim(f.Idade)) \in 0..150
    /\ Len(trim(f.UF)) = 2

\* C5: validateForm accepts a form if and only if Nome is non-blank after
\* trimming, Idade is non-blank and an integer in [0,150], and UF, after
\* trimming, has exactly 2 characters.
C5_ValidationMatchesRule ==
    vResult # "none" => (vResult = "accepted" <=> FormIsValid(vForm))

----------------------------------------------------------------------------
(* Client Application: fetch calls and their outcomes *)

API_BASE_URL == "http://localhost:3000"

\* a pending fetch: the async function awaiting it, whether it awaits the
\* response ("fetch") or the response's body ("body"), and what was sent
Call(fn, phase, id, body) == [fn |-> fn, phase |-> phase, id |-> id, body |-> body]

One(c) == SetToBag({c})

Pending(fn, phase) == {c \in BagToSet(inflight) : c.fn = fn /\ c.phase = phase}

CountOf(bag, fn) ==
    LET cs == {c \in BagToSet(bag) : c.fn = fn}
        RECURSIVE Sum(_)
        Sum(S) == IF S = {} THEN 0
                  ELSE LET c == CHOOSE x \in S : TRUE
                       IN  CopiesIn(c, bag) + Sum(S \ {c})
    IN  Sum(cs)

JsError(name, message) == [name |-> name, message |-> message]

NoError == JsError("", <<>>)

\* AbortSignal.timeout(10000) fired
TimeoutError == JsError("TimeoutError", <<"The operation timed out.">>)

\* controller.abort() called by the 8000 ms timer
AbortError == JsError("AbortError", <<"Aborted">>)

\* fetch's network-level rejection, as React Native and as browsers word it
NetworkErrors ==
    {JsError("TypeError", <<"Network request failed">>),
     JsError("TypeError", <<"Failed to fetch">>)}

SyntaxError == JsError("SyntaxError", <<"JSON Parse error">>)

StatusText(status) ==
    CASE status = 200 -> "200" [] status = 201 -> "201"
      [] status = 404 -> "404" [] status = 500 -> "500"

\* new Error(`HTTP error! status: ${response.status}`)
HttpError(status) == JsError("Error", <<"HTTP error! status: ", StatusText(status)>>)

\* message.includes(needle), for messages kept as their parts
Includes(message, needle) == \E i \in 1..Len(message) : message[i] = needle

Response(status) == [kind |-> "response", status |-> status, error |-> NoError]

Reject(error) == [kind |-> "reject", status |-> 0, error |-> error]

\* response.ok
Ok(o) == o.kind = "response" /\ o.status \in 200..299

\* how an awaited fetch may settle
Responses == {Response(200), Response(404), Response(500)}
TimedFetchOutcomes == Responses \cup {Reject(e) : e \in NetworkErrors \cup {TimeoutError}}
DeleteFetchOutcomes == Responses \cup {Reject(e) : e \in NetworkErrors \cup {AbortError}}

\* how an awaited response.text() may settle
Done == [kind |-> "done", status |-> 0, error |-> NoError]
TimedTextOutcomes == {Done} \cup {Reject(e) : e \in NetworkErrors \cup {TimeoutError}}
DeleteTextOutcomes == {Done} \cup {Reject(e) : e \in NetworkErrors}

\* a record the API Service may list
Ana == [id |-> 1, Nome |-> <<"a">>, Idade |-> 15, UF |-> <<"S", "P">>]

\* how an awaited response.json() may settle: a parsed value, array or not
Parsed(isArray, rows) ==
    [kind |-> "json", status |-> 0, error |-> NoError, isArray |-> isArray, rows |-> rows]
JsonOutcomes ==
    {Parsed(TRUE, <<>>), Parsed(TRUE, <<Ana>>), Parsed(FALSE, <<>>)}
JsonFailures == NetworkErrors \cup {TimeoutError, SyntaxError}

OutcomeOf(error) ==
    CASE error.name \in {"TimeoutError", "AbortError"} -> "timeout"
      [] error.name = "TypeError" -> "network"
      [] error.name = "SyntaxError" -> "badJson"
      [] OTHER -> "non2xx"

Alert(title, message) == [title |-> title, message |-> message]

Event(fn, outcome) == [fn |-> fn, outcome |-> outcome]

----------------------------------------------------------------------------
(* Client Application: fetchClientes *)

\* fetchClientes up to its first await, on top of the pending calls in bag
fetchClientes(bag) ==
    /\ loading' = TRUE
    /\ inflight' = bag (+) One(Call("fetchClientes", "fetch", 0, NoBody))

\* the catch block of fetchClientes
fetchClientesAlert(error) ==
    IF error.name = "TimeoutError"
    THEN Alert("Erro", <<"Timeout: Verifique se a API está rodando e o IP está correto.">>)
    ELSE IF Includes(error.message, "Network request failed")
    THEN Alert("Erro de Conexão",
               <<"Não foi possível conectar com a API. Verifique: Se a API está rodando na porta 3000; Se o IP ",
                 API_BASE_URL, " está correto; Se você está na mesma rede">>)
    ELSE Alert("Erro", <<"Falha na conexão: ">> \o error.message)

\* catch and finally of fetchClientes, for the pending call c
fetchClientesCatch(c, error) ==
    /\ lastAlert' = fetchClientesAlert(error)
    /\ loading' = FALSE
    /\ inflight' = inflight (-) One(c)
    /\ lastEvent' = Event("fetchClientes", OutcomeOf(error))
    /\ UNCHANGED <<clientes, modalVisible, deleteModalVisible, editingCliente,
                   deletingCliente, formData>>

\* the awaited fetch of fetchClientes settles
fetchClientesSettled(c, o) ==
    IF Ok(o)
    THEN /\ inflight' = (inflight (-) One(c)) (+) One([c EXCEPT !.phase = "body"])
         /\ lastAlert' = NoAlert
         /\ lastEvent' = Event("fetchClientes", "ok")
         /\ UNCHANGED <<clientes, loading, modalVisible, deleteModalVisible,
                        editingCliente, deletingCliente, formData>>
    ELSE fetchClientesCatch(c, IF o.kind = "response" THEN HttpError(o.status) ELSE o.error)

\* the awaited response.json() of fetchClientes returns data
fetchClientesData(c, j) ==
    /\ clientes' = IF j.isArray THEN j.rows ELSE <<>>
    /\ loading' = FALSE
    /\ inflight' = inflight (-) One(c)
    /\ lastEvent' = Event("fetchClientes", "2xx")
    /\ lastAlert' = NoAlert
    /\ UNCHANGED <<modalVisible, deleteModalVisible, editingCliente,
                   deletingCliente, formData>>

----------------------------------------------------------------------------
(* Client Application: modals and form *)

resetForm ==
    /\ formData' = EmptyForm
    /\ editingCliente' = Null
    /\ modalVisible' = FALSE

\* a closeDeleteModal that hides the confirmation and keeps the reference
closeDeleteModalKeepsRef ==
    /\ deleteModalVisible' = FALSE
    /\ UNCHANGED deletingCliente

closeDeleteModal ==
    /\ deletingCliente' = Null
    /\ deleteModalVisible' = FALSE

confirmDeleteCliente(cliente) ==
    /\ deletingCliente' = cliente
    /\ deleteModalVisible' = TRUE
    /\ UNCHANGED <<clientes, loading, modalVisible, editingCliente, formData,
                   inflight>>

openEditModal(cliente) ==
    /\ editingCliente' = cliente
    /\ formData' = Form(cliente.Nome, toString(cliente.Idade), cliente.UF)
    /\ modalVisible' = TRUE
    /\ UNCHANGED <<clientes, loading, deleteModalVisible, deletingCliente,
                   inflight>>

openCreateModal ==
    /\ editingCliente' = Null
    /\ formData' = EmptyForm
    /\ modalVisible' = TRUE
    /\ UNCHANGED <<clientes, loading, deleteModalVisible, deletingCliente,
                   inflight>>

handleInputChange(field, value) ==
    /\ formData' = [formData EXCEPT ![field] = value]
    /\ UNCHANGED <<clientes, loading, modalVisible, deleteModalVisible,
                   editingCliente, deletingCliente, inflight>>

----------------------------------------------------------------------------
(* Client Application: createCliente and updateCliente *)

\* the body of the POST / PUT request
Payload(f) ==
    [Nome |-> trim(f.Nome), Idade |-> parseInt(f.Idade).val, UF |-> toUpperCase(trim(f.UF))]

ConnectionAlert == Alert("Erro", <<"Erro de conexão. Verifique se a API está funcionando.">>)

\* validateForm failed: its alert, and the function returns
Rejected(fn) ==
    /\ lastAlert' = Alert("Erro", <<validateFormAlert(formData)>>)
    /\ lastEvent' = Event(fn, "invalid")
    /\ UNCHANGED <<clientes, loading, modalVisible, deleteModalVisible,
                   editingCliente, deletingCliente, formData, inflight>>

\* a submit that also starts the list fetch without awaiting the response
SendsAndFetches(c) ==
    /\ fetchClientes(inflight (+) One(c))
    /\ lastEvent' = Event(c.fn, "sent")
    /\ lastAlert' = NoAlert
    /\ UNCHANGED <<clientes, modalVisible, deleteModalVisible,
                   editingCliente, deletingCliente, formData>>

\* the function reaches its await of fetch
Sends(c) ==
    /\ inflight' = inflight (+) One(c)
    /\ lastEvent' = Event(c.fn, "sent")
    /\ lastAlert' = NoAlert
    /\ UNCHANGED <<clientes, loading, modalVisible, deleteModalVisible,
                   editingCliente, deletingCliente, formData>>

\* createCliente up to its await of fetch
createCliente ==
    IF ~validateForm(formData) THEN Rejected("createCliente")
    ELSE Sends(Call("createCliente", "fetch", 0, Payload(formData)))

\* updateCliente up to its await of fetch
updateCliente ==
    IF editingCliente = Null
    THEN UNCHANGED uiVars
    ELSE IF ~validateForm(formData) THEN Rejected("updateCliente")
    ELSE Sends(Call("updateCliente", "fetch", editingCliente.id, Payload(formData)))

\* response.ok: success alert, resetForm, await fetchClientes
SubmitOk(c, message) ==
    /\ lastAlert' = Alert("Sucesso", <<message>>)
    /\ resetForm
    /\ fetchClientes(inflight (-) One(c))
    /\ lastEvent' = Event(c.fn, "2xx")
    /\ UNCHANGED <<clientes, deleteModalVisible, deletingCliente>>

\* !response.ok: the function awaits response.text()
AwaitsText(c) ==
    /\ inflight' = (inflight (-) One(c)) (+) One([c EXCEPT !.phase = "body"])
    /\ lastAlert' = NoAlert
    /\ lastEvent' = Event(c.fn, "notOk")
    /\ UNCHANGED <<clientes, loading, modalVisible, deleteModalVisible,
                   editingCliente, deletingCliente, formData>>

\* a failure path that also runs resetForm
SubmitFailsResets(c, alert, outcome) ==
    /\ lastAlert' = alert
    /\ resetForm
    /\ inflight' = inflight (-) One(c)
    /\ lastEvent' = Event(c.fn, outcome)
    /\ UNCHANGED <<clientes, loading, deleteModalVisible, deletingCliente>>

\* the function ends with an alert and nothing else
SubmitFails(c, alert, outcome) ==
    /\ lastAlert' = alert
    /\ inflight' = inflight (-) One(c)
    /\ lastEvent' = Event(c.fn, outcome)
    /\ UNCHANGED <<clientes, loading, modalVisible, deleteModalVisible,
                   editingCliente, deletingCliente, formData>>

\* the awaited fetch of createCliente settles
createClienteSettled(c, o) ==
    IF Ok(o) THEN SubmitOk(c, "Cliente criado com sucesso!")
    ELSE IF o.kind = "response" THEN AwaitsText(c)
    ELSE SubmitFails(c, ConnectionAlert, OutcomeOf(o.error))

\* the awaited response.text() of createCliente settles
createClienteText(c, o) ==
    IF o.kind = "done"
    THEN SubmitFails(c, Alert("Erro", <<"Não foi possível criar o cliente">>), "non2xx")
    ELSE SubmitFails(c, ConnectionAlert, "non2xx")

\* the awaited fetch of updateCliente settles
updateClienteSettled(c, o) ==
    IF Ok(o) THEN SubmitOk(c, "Cliente atualizado com sucesso!")
    ELSE IF o.kind = "response" THEN AwaitsText(c)
    ELSE SubmitFails(c, ConnectionAlert, OutcomeOf(o.error))

\* the awaited response.text() of updateCliente settles
updateClienteText(c, o) ==
    IF o.kind = "done"
    THEN SubmitFails(c, Alert("Erro", <<"Não foi possível atualizar o cliente">>), "non2xx")
    ELSE SubmitFails(c, ConnectionAlert, "non2xx")

----------------------------------------------------------------------------
(* Client Application: deleteCliente *)

\* deleteCliente up to its await of fetch
deleteCliente ==
    IF deletingCliente = Null
    THEN UNCHANGED uiVars
    ELSE Sends(Call("deleteCliente", "fetch", deletingCliente.id, NoBody))

\* a catch block that tests for the name AbortSignal.timeout rejects with
deleteClienteAlertWrongName(error) ==
    IF error.name = "TimeoutError"
    THEN Alert("Timeout", <<"A operação demorou muito para responder.">>)
    ELSE ConnectionAlert

\* the alert of deleteCliente's catch block
deleteClienteAlert(error) ==
    IF error.name = "AbortError"
    THEN Alert("Timeout", <<"A operação demorou muito para responder.">>)
    ELSE ConnectionAlert

\* the catch block of deleteCliente
deleteClienteCatch(c, error, outcome) ==
    /\ closeDeleteModal
    /\ lastAlert' = deleteClienteAlert(error)
    /\ inflight' = inflight (-) One(c)
    /\ lastEvent' = Event("deleteCliente", outcome)
    /\ UNCHANGED <<clientes, loading, modalVisible, editingCliente, formData>>

\* a deleteCliente whose catch block forgets closeDeleteModal
deleteClienteSettledKeepsModal(c, o) ==
    IF Ok(o)
    THEN /\ lastAlert' = Alert("Sucesso", <<"Cliente deletado com sucesso!">>)
         /\ closeDeleteModal
         /\ fetchClientes(inflight (-) One(c))
         /\ lastEvent' = Event("deleteCliente", "2xx")
         /\ UNCHANGED <<clientes, modalVisible, editingCliente, formData>>
    ELSE IF o.kind = "response" THEN AwaitsText(c)
    ELSE /\ lastAlert' = deleteClienteAlert(o.error)
         /\ inflight' = inflight (-) One(c)
         /\ lastEvent' = Event("deleteCliente", OutcomeOf(o.error))
         /\ UNCHANGED <<clientes, loading, modalVisible, deleteModalVisible,
                        editingCliente, deletingCliente, formData>>

\* the awaited fetch of deleteCliente settles (the 8000 ms timer is cleared
\* once it has resolved)
deleteClienteSettled(c, o) ==
    IF Ok(o)
    THEN /\ lastAlert' = Alert("Sucesso", <<"Cliente deletado com sucesso!">>)
         /\ closeDeleteModal
         /\ fetchClientes(inflight (-) One(c))
         /\ lastEvent' = Event("deleteCliente", "2xx")
         /\ UNCHANGED <<clientes, modalVisible, editingCliente, formData>>
    ELSE IF o.kind = "response" THEN AwaitsText(c)
    ELSE deleteClienteCatch(c, o.error, OutcomeOf(o.error))

\* the awaited response.text() of deleteCliente settles
deleteClienteText(c, o) ==
    IF o.kind = "done"
    THEN /\ lastAlert' = Alert("Erro", <<"Não foi possível deletar o cliente">>)
         /\ closeDeleteModal
         /\ inflight' = inflight (-) One(c)
         /\ lastEvent' = Event("deleteCliente", "non2xx")
         /\ UNCHANGED <<clientes, loading, modalVisible, editingCliente, formData>>
    ELSE deleteClienteCatch(c, o.error, "non2xx")

----------------------------------------------------------------------------
(* Client Application: the user and the network *)

\* texts the user types into the form's inputs
TypedNomes == {<<" ", "a">>}
TypedIdades == {<<"1">>}
TypedUFs == {<<"s", "p">>, <<" ", "s">>}

\* a step that raises no alert and runs no async function
Quiet == lastAlert' = NoAlert /\ lastEvent' = NoEvent

\* the list screen is reachable: no modal covers it
OnList == ~modalVisible /\ ~deleteModalVisible

MayFetch == BagCardinality(inflight) < MaxInFlight

ApiIdle ==
    /\ store = <<>>
    /\ nextId = 1
    /\ lastReq = NoRequest
    /\ sent = <<>>
    /\ again = FALSE

\* the component mounted: useEffect has called fetchClientes
InitUI ==
    /\ clientes = <<>>
    /\ loading = TRUE
    /\ modalVisible = FALSE
    /\ deleteModalVisible = FALSE
    /\ editingCliente = Null
    /\ deletingCliente = Null
    /\ formData = EmptyForm
    /\ inflight = One(Call("fetchClientes", "fetch", 0, NoBody))
    /\ lastAlert = NoAlert
    /\ lastEvent = NoEvent
    /\ InitVal0
    /\ ApiIdle
    /\ answers = EmptyBag

Frame == UNCHANGED <<apiVars, valVars, netVars>>

\* pull-to-refresh (the refresh control takes no pull while refreshing) or
\* the retry button of the empty list (rendered when not loading)
PressRefresh ==
    /\ OnList
    /\ ~loading
    /\ MayFetch
    /\ fetchClientes(inflight)
    /\ lastAlert' = NoAlert
    /\ lastEvent' = Event("fetchClientes", "sent")
    /\ UNCHANGED <<clientes, modalVisible, deleteModalVisible, editingCliente,
                   deletingCliente, formData>>
    /\ Frame

PressNovo == OnList /\ openCreateModal /\ Quiet /\ Frame

PressEdit ==
    /\ OnList
    /\ \E i \in 1..Len(clientes) : openEditModal(clientes[i])
    /\ Quiet
    /\ Frame

PressDelete ==
    /\ OnList
    /\ \E i \in 1..Len(clientes) : confirmDeleteCliente(clientes[i])
    /\ Quiet
    /\ Frame

\* onChangeText of the three inputs; the UF input upper-cases what is typed
TypeNome ==
    /\ modalVisible
    /\ \E v \in TypedNomes : handleInputChange("Nome", v)
    /\ Quiet
    /\ Frame

TypeIdade ==
    /\ modalVisible
    /\ \E v \in TypedIdades : handleInputChange("Idade", v)
    /\ Quiet
    /\ Frame

TypeUF ==
    /\ modalVisible
    /\ \E v \in TypedUFs : handleInputChange("UF", toUpperCase(v))
    /\ Quiet
    /\ Frame

\* Cancelar, the close button or the back button of the form modal
PressCancel ==
    /\ modalVisible
    /\ resetForm
    /\ Quiet
    /\ UNCHANGED <<clientes, loading, deleteModalVisible, deletingCliente,
                   inflight>>
    /\ Frame

\* Salvar / Atualizar: onPress={editingCliente ? updateCliente : createCliente}
PressSave ==
    /\ modalVisible
    /\ MayFetch
    /\ IF editingCliente # Null THEN updateCliente ELSE createCliente
    /\ Frame

\* Cancelar or the back button of the confirmation modal
PressCancelDelete ==
    /\ deleteModalVisible
    /\ closeDeleteModal
    /\ Quiet
    /\ UNCHANGED <<clientes, loading, modalVisible, editingCliente, formData,
                   inflight>>
    /\ Frame

PressConfirmDelete == deleteModalVisible /\ MayFetch /\ deleteCliente /\ Frame

ListSettles ==
    /\ \E c \in Pending("fetchClientes", "fetch"), o \in TimedFetchOutcomes :
          fetchClientesSettled(c, o)
    /\ Frame

ListJsonParsed ==
    /\ \E c \in Pending("fetchClientes", "body"), j \in JsonOutcomes : fetchClientesData(c, j)
    /\ Frame

ListJsonFails ==
    /\ \E c \in Pending("fetchClientes", "body"), e \in JsonFailures : fetchClientesCatch(c, e)
    /\ Frame

CreateSettles ==
    /\ \E c \in Pending("createCliente", "fetch"), o \in TimedFetchOutcomes :
          createClienteSettled(c, o)
    /\ Frame

CreateTextSettles ==
    /\ \E c \in Pending("createCliente", "body"), o \in TimedTextOutcomes :
          createClienteText(c, o)
    /\ Frame

UpdateSettles ==
    /\ \E c \in Pending("updateCliente", "fetch"), o \in TimedFetchOutcomes :
          updateClienteSettled(c, o)
    /\ Frame

UpdateTextSettles ==
    /\ \E c \in Pending("updateCliente", "body"), o \in TimedTextOutcomes :
          updateClienteText(c, o)
    /\ Frame

DeleteSettles ==
    /\ \E c \in Pending("deleteCliente", "fetch"), o \in DeleteFetchOutcomes :
          deleteClienteSettled(c, o)
    /\ Frame

DeleteTextSettles ==
    /\ \E c \in Pending("deleteCliente", "body"), o \in DeleteTextOutcomes :
          deleteClienteText(c, o)
    /\ Frame

NextUI ==
    \/ PressRefresh
    \/ PressNovo
    \/ PressEdit
    \/ PressDelete
    \/ TypeNome
    \/ TypeIdade
    \/ TypeUF
    \/ PressCancel
    \/ PressSave
    \/ PressCancelDelete
    \/ PressConfirmDelete
    \/ ListSettles
    \/ ListJsonParsed
    \/ ListJsonFails
    \/ CreateSettles
    \/ CreateTextSettles
    \/ UpdateSettles
    \/ UpdateTextSettles
    \/ DeleteSettles
    \/ DeleteTextSettles

SpecUI == InitUI /\ [][NextUI]_vars

\* the fairness the runtime gives deleteCliente: its awaited fetch settles
\* (with a response, a network error, or the abort of the 8000 ms timer) and
\* so does its awaited response.text()
FairUI == SpecUI /\ WF_vars(DeleteSettles) /\ WF_vars(DeleteTextSettles)

----------------------------------------------------------------------------
(* C6: validated submission payload *)

IsSubmit(c) == c.fn \in {"createCliente", "updateCliente"}

PayloadOk(b) ==
    /\ b.Nome # <<>>
    /\ trim(b.Nome) = b.Nome
    /\ b.Idade \in 0..150
    /\ toUpperCase(b.UF) = b.UF
    /\ Len(b.UF) = 2

\* C6: a POST or PUT is sent only after validateForm has passed, every such
\* request body has a trimmed non-empty Nome, an Idade in [0,150] and an
\* upper-cased UF of exactly 2 characters, and a failed validation sends
\* nothing.
C6_ValidatedPayload ==
    /\ [](\A c \in BagToSet(inflight) : IsSubmit(c) => PayloadOk(c.body))
    /\ [][(\E fn \in {"createCliente", "updateCliente"} :
              CountOf(inflight', fn) > CountOf(inflight, fn))
            => validateForm(formData)]_vars
    /\ [][lastEvent'.outcome = "invalid" => inflight' = inflight]_vars

----------------------------------------------------------------------------
(* C8: timeout is distinguished from network failure *)

\* C8: the alert shown when the list request times out, and the one shown
\* when the delete request is aborted by its timer, is an alert, and is not
\* the alert shown for a network-level failure of the same request; nor is
\* the timeout alert shown for a network-level failure.
C8_TimeoutAlertDistinct ==
    /\ lastEvent = Event("fetchClientes", "timeout") =>
          /\ lastAlert # NoAlert
          /\ \A e \in NetworkErrors : lastAlert # fetchClientesAlert(e)
    /\ lastEvent = Event("fetchClientes", "network") =>
          /\ lastAlert # NoAlert
          /\ lastAlert # fetchClientesAlert(TimeoutError)
    /\ lastEvent = Event("deleteCliente", "timeout") =>
          /\ lastAlert # NoAlert
          /\ \A e \in NetworkErrors : lastAlert # deleteClienteAlert(e)
    /\ lastEvent = Event("deleteCliente", "network") =>
          /\ lastAlert # NoAlert
          /\ lastAlert # deleteClienteAlert(AbortError)

\* a delete request was aborted by its timer and the Timeout alert shown
C8_Witness ==
    /\ lastEvent = Event("deleteCliente", "timeout")
    /\ lastAlert.title = "Timeout"

----------------------------------------------------------------------------
(* C9: create/update submission outcome *)

\* this step resumes createCliente or updateCliente after an await
SubmitResumed ==
    /\ inflight' # inflight
    /\ lastEvent'.fn \in {"createCliente", "updateCliente"}
    /\ lastEvent'.outcome # "sent"

ListFetches(bag) == CountOf(bag, "fetchClientes")

\* C9: when the create or update request returns 2xx the form is emptied,
\* the edited-record reference cleared, the form modal closed and a list
\* fetch started; when it returns a non-2xx status or fails at the network
\* level, form, reference and modal visibility stay as they are and no list
\* fetch is started.
C9_SubmitOutcome ==
    [][SubmitResumed =>
         IF lastEvent'.outcome = "2xx"
         THEN /\ formData' = EmptyForm
              /\ editingCliente' = Null
              /\ modalVisible' = FALSE
              /\ ListFetches(inflight') = ListFetches(inflight) + 1
         ELSE /\ UNCHANGED <<formData, editingCliente, modalVisible>>
              /\ ListFetches(inflight') = ListFetches(inflight)]_vars

\* an update answered with a non-2xx status has ended, the form modal still
\* open on the edited record with what was typed
C9_Witness ==
    /\ lastEvent = Event("updateCliente", "non2xx")
    /\ modalVisible
    /\ editingCliente = Ana
    /\ formData.Nome = <<" ", "a">>

----------------------------------------------------------------------------
(* C10: the delete confirmation is always dismissed *)

Deletes(bag) == CountOf(bag, "deleteCliente")

Dismissed == ~deleteModalVisible /\ deletingCliente = Null

\* C10: once a confirmed deletion is under way the confirmation view is
\* eventually closed and the deleted-record reference cleared; the step in
\* which deleteCliente ends (2xx, non-2xx, network error or timer abort)
\* leaves it so; and deleteCliente starts a list fetch in the 2xx case and
\* only then.
C10_DeleteAlwaysDismissed ==
    /\ (Deletes(inflight) > 0) ~> Dismissed
    /\ [][Deletes(inflight') < Deletes(inflight) => Dismissed']_vars
    /\ [][(inflight' # inflight /\ lastEvent'.fn = "deleteCliente")
            => (ListFetches(inflight') > ListFetches(inflight)
                  <=> lastEvent'.outcome = "2xx")]_vars

\* a delete answered with a non-2xx status has ended with the confirmation
\* closed, and no list fetch is pending
C10_Witness ==
    /\ lastEvent = Event("deleteCliente", "non2xx")
    /\ Dismissed
    /\ ListFetches(inflight) = 0

----------------------------------------------------------------------------
(* C11: requests in flight *)

InFlight == BagCardinality(inflight)

\* C11 as stated: in every reachable state of the Client Application, under
\* any sequence of user actions, at most one list or mutation request is in
\* flight.
C11_AtMostOneInFlight == InFlight <= 1

\* C11: every step of the Client Application (a user action, or an async
\* function resumed after an await) starts at most one request, and a
\* function resumed after its awaited request ends that request before it
\* starts the list fetch; requests started by different user actions may be
\* in flight together.
C11_OneRequestPerAction ==
    [][/\ BagCardinality(inflight') <= InFlight + 1
       /\ lastEvent'.outcome = "2xx" => BagCardinality(inflight') <= InFlight]_vars

\* Salvar was pressed again while the first create request was pending
C11_Witness ==
    /\ CountOf(inflight, "createCliente") = 2
    /\ lastEvent = Event("createCliente", "sent")

----------------------------------------------------------------------------
(* C12: modal visibility and record references *)

\* C12: in every reachable state, whenever the form modal is not visible the
\* edited-record reference is null, and whenever the delete confirmation
\* modal is not visible the deleted-record reference is null.
C12_ModalReferenceInvariant ==
    /\ ~modalVisible => editingCliente = Null
    /\ ~deleteModalVisible => deletingCliente = Null

\* a delete confirmed, then cancelled, completed late with 2xx while the form
\* modal was open on a record: the confirmation stays closed with no
\* reference, the form modal keeps its own
C12_Witness ==
    /\ lastEvent = Event("deleteCliente", "2xx")
    /\ ~deleteModalVisible
    /\ deletingCliente = Null
    /\ modalVisible
    /\ editingCliente = Ana

----------------------------------------------------------------------------
(* The Client Application against the API Service: one client, no other    *)
(* writer, no storage failure, no network failure and no timeout.  A call  *)
(* of inflight is handled by its route handler at some point after it was  *)
(* sent, and its response reaches the awaiting function at some later      *)
(* point; neither the network nor the code orders the responses.           *)

\* a response on its way to the call awaiting it
Answer(c, res) == [call |-> c, res |-> res]

\* how many copies of the call c have been answered
Answered(c) ==
    LET as == {a \in BagToSet(answers) : a.call = c}
        RECURSIVE Sum(_)
        Sum(S) == IF S = {} THEN 0
                  ELSE LET a == CHOOSE x \in S : TRUE
                       IN  CopiesIn(a, answers) + Sum(S \ {a})
    IN  Sum(as)

\* the route handler the call's request reaches
Route(c) ==
    CASE c.fn = "fetchClientes" -> GetRoot(FALSE)
      [] c.fn = "createCliente" -> PostCliente(c.body, FALSE)
      [] c.fn = "updateCliente" -> PutCliente(c.id, c.body, FALSE)
      [] c.fn = "deleteCliente" -> DeleteCliente(c.id, FALSE)

\* the API Service handles the request of a pending call and responds
ServerHandles ==
    /\ \E c \in BagToSet(inflight) :
          /\ c.phase = "fetch"
          /\ Answered(c) < CopiesIn(c, inflight)
          /\ Route(c)
          /\ answers' = answers (+) One(Answer(c, sent'[1]))
    /\ UNCHANGED <<valVars, uiVars>>

\* the awaited fetch resolves with the response's status
ClientReceives ==
    /\ \E a \in BagToSet(answers) :
          LET c == a.call
              o == Response(a.res.status)
          IN  /\ c.phase = "fetch"
              /\ CASE c.fn = "fetchClientes" -> fetchClientesSettled(c, o)
                   [] c.fn = "createCliente" -> createClienteSettled(c, o)
                   [] c.fn = "updateCliente" -> updateClienteSettled(c, o)
                   [] c.fn = "deleteCliente" -> deleteClienteSettled(c, o)
              /\ answers' =
                    IF c.fn = "fetchClientes" \/ ~Ok(o)
                    THEN (answers (-) One(a))
                           (+) One(Answer([c EXCEPT !.phase = "body"], a.res))
                    ELSE answers (-) One(a)
    /\ UNCHANGED <<apiVars, valVars>>

\* the awaited response.json() of fetchClientes returns what the handler
\* sent; the awaited response.text() of a submit or delete answered with a
\* non-2xx status returns
ClientReadsBody ==
    /\ \E a \in BagToSet(answers) :
          LET c == a.call
          IN  /\ c.phase = "body"
              /\ CASE c.fn = "fetchClientes" ->
                        fetchClientesData(c, Parsed(a.res.kind = "data", a.res.data))
                   [] c.fn = "createCliente" -> createClienteText(c, Done)
                   [] c.fn = "updateCliente" -> updateClienteText(c, Done)
                   [] c.fn = "deleteCliente" -> deleteClienteText(c, Done)
              /\ answers' = answers (-) One(a)
    /\ UNCHANGED <<apiVars, valVars>>

\* Salvar; creates stop once MaxId ids are generated or asked for
PressSaveWithinIds ==
    /\ editingCliente = Null => nextId + CountOf(inflight, "createCliente") <= MaxId
    /\ PressSave

NextSystem ==
    \/ PressRefresh
    \/ PressNovo
    \/ PressEdit
    \/ PressDelete
    \/ TypeNome
    \/ TypeIdade
    \/ TypeUF
    \/ PressCancel
    \/ PressSaveWithinIds
    \/ PressCancelDelete
    \/ PressConfirmDelete
    \/ ServerHandles
    \/ ClientReceives
    \/ ClientReadsBody

SpecSystem == InitUI /\ [][NextSystem]_vars

----------------------------------------------------------------------------
(* C13: the displayed list converges to the store *)

\* no call of the Client Application is pending
Quiescent == inflight = EmptyBag

\* C13: with a single Client Application, no other writers and no request
\* failures, once a create has completed and no request is in flight any
\* more (so every list request has returned, in whatever order the
\* overlapping responses arrived), the list displayed by the Client
\* Application equals the contents of the server store.
C13_DisplayedListConverges ==
    (Quiescent /\ nextId > 1) => clientes = store

====
